---- MODULE Spec2Model ----
(***************************************************************************)
(* Model of the hit-counter API of app/main.py: the in-memory page store   *)
(* pages_data, the Prometheus metrics, the before_request/after_request    *)
(* middleware and the route handlers, run by the threads of the threaded   *)
(* development server (app.run), which interleave between the bytecodes of *)
(* a handler.                                                              *)
(***************************************************************************)
EXTENDS Integers, Sequences, FiniteSets, TLC

VARIABLES
    pages_data,        \* the dict pages_data: insertion-ordered entries key -> reference
    heap,              \* the page dict objects the entries refer to
    request_count,     \* Counter api_requests_total, by <<method, endpoint>>
    request_duration,  \* Histogram api_request_duration_seconds, by endpoint
    hit_counter,       \* Counter page_hits_total, by page_name
    clock,             \* the system clock, in ticks: it advances as requests arrive
    pc,                \* where each server thread is in its request
    req,               \* flask's request object of each thread
    loc,               \* the local variables of each thread's handler
    resp,              \* the response each thread's handler returned
    nreq,              \* requests received so far
    createdIds,        \* history: the ids answered with 201, in answer order
    hitsDone,          \* history: per id, the incrementHit requests answered with 200
    log,               \* the request_start and request_end records written so far
    lastList           \* history: the last GET /api/pages array since the last write

vars == <<pages_data, heap, request_count, request_duration, hit_counter, clock,
          pc, req, loc, resp, nreq, log, createdIds, hitsDone, lastList>>

-----------------------------------------------------------------------------
(* Bounds of the model *)

NumThreads == 2        \* server threads that can be in a request at once
MaxRequests == 2       \* requests received in a run of the threaded server
MaxSeqRequests == 3    \* requests received in a run that takes them one at a time
MaxIntSeg == 20        \* the page ids the int converter is given lie in 0..MaxIntSeg

Threads == 1..NumThreads

-----------------------------------------------------------------------------
(* The seeded store *)

SeedNames ==
    << "Home page", "Login / Sign up", "Shop / Products listing",
       "Product details page", "Search results page", "Cart page",
       "Checkout page", "Payment page", "Order confirmation page",
       "User profile / Account", "Wishlist / Favorites", "About us",
       "Contact us", "FAQ / Help", "Admin dashboard" >>

SeedHits ==
    << 4850, 1320, 2940, 6780, 1150, 620, 310, 245, 230, 410, 180, 260, 140, 195, 85 >>

NumSeed == Len(SeedNames)

SeedPage(i) == [id |-> i, name |-> SeedNames[i], hits |-> SeedHits[i], created_at |-> 0]

-----------------------------------------------------------------------------
(* Python dict: entries in insertion order; assigning an existing key keeps its place *)

Keys(d) == {d[i].key : i \in 1..Len(d)}

DictIndex(d, k) == CHOOSE i \in 1..Len(d) : d[i].key = k

DictGet(d, k) == d[DictIndex(d, k)].ref

DictSet(d, k, r) ==
    IF k \in Keys(d)
    THEN [d EXCEPT ![DictIndex(d, k)].ref = r]
    ELSE Append(d, [key |-> k, ref |-> r])

\* pages_data[k], the page dict stored under k
PageAt(d, h, k) == h[DictGet(d, k)]

\* list(pages_data.values())
DictValues(d, h) == [i \in 1..Len(d) |-> h[d[i].ref]]

-----------------------------------------------------------------------------
(* prometheus_client: a labelled series is created on first use; inc and observe are locked *)

SeriesValue(c, labels) == IF labels \in DOMAIN c THEN c[labels] ELSE 0

CounterInc(c, labels) ==
    [l \in DOMAIN c \cup {labels} |-> IF l = labels THEN SeriesValue(c, l) + 1 ELSE c[l]]

HistogramObserve(hg, labels, v) ==
    [l \in DOMAIN hg \cup {labels} |->
        IF l = labels
        THEN IF l \in DOMAIN hg
             THEN [count |-> hg[l].count + 1, sum |-> hg[l].sum + v]
             ELSE [count |-> 1, sum |-> v]
        ELSE hg[l]]

MetricFamilies == {"api_requests_total", "api_request_duration_seconds", "page_hits_total"}

-----------------------------------------------------------------------------
(* Requests: the inputs *)

\* request.path.split('/') of the paths requested
PageIdSegs == {"1", "16"}

PathInputs ==
    { <<"", "">>, <<"", "health">>, <<"", "api", "pages">>, <<"", "metrics">>,
      <<"", "nope">> }
    \cup {<<"", "api", "pages", s, "hits">> : s \in PageIdSegs}
    \cup {<<"", "api", "pages", s, "hit">> : s \in PageIdSegs}

RequestInputs ==
    {<<"GET", p>> : p \in PathInputs \ {<<"", "api", "pages", s, "hit">> : s \in PageIdSegs}}
    \cup {<<"POST", <<"", "api", "pages">> >>, <<"POST", <<"", "health">> >>}
    \cup {<<"POST", <<"", "api", "pages", s, "hit">> >> : s \in PageIdSegs}

NoHeaders == [k \in {} |-> ""]

HeaderInputs ==
    {NoHeaders, [k \in {"X-Request-ID"} |-> ""], [k \in {"X-Request-ID"} |-> "abc"]}

\* JSON request bodies: kind, and the members, items or number of that kind
Json(kind, members, items, num) ==
    [kind |-> kind, members |-> members, items |-> items, num |-> num]

NoBody == Json("absent", <<>>, <<>>, 0)
JsonNull == Json("null", <<>>, <<>>, 0)
JsonObject(members) == Json("object", members, <<>>, 0)
JsonArray(items) == Json("array", <<>>, items, 0)
JsonNumber(n) == Json("number", <<>>, <<>>, n)
Member(k, v) == [k |-> k, v |-> v]

NameInputs == {"Homepage", "Test Page", ""}

\* the requests that arrive: every request without the header, and the header's
\* values, which only before_request reads, on one route
Arrivals ==
    {<<r, NoHeaders>> : r \in RequestInputs}
    \cup {<<<<"GET", <<"", "health">> >>, h>> : h \in HeaderInputs}

BodyInputs ==
    {NoBody, JsonObject(<<>>), JsonObject(<<Member("title", "x")>>),
     JsonArray(<<"name">>), JsonNumber(5)}
    \cup {JsonObject(<<Member("name", n)>>) : n \in NameInputs}

-----------------------------------------------------------------------------
(* Routing: the url map built by the @app.route decorators *)

\* werkzeug's int converter: a segment of decimal digits
IsIntSeg(s) == \E n \in 0..MaxIntSeg : ToString(n) = s

IntOfSeg(s) == CHOOSE n \in 0..MaxIntSeg : ToString(n) = s

IsPagePath(path, last) ==
    /\ Len(path) = 5
    /\ SubSeq(path, 1, 3) = <<"", "api", "pages">>
    /\ IsIntSeg(path[4])
    /\ path[5] = last

\* the view function methods and path select; a known path under another method is a 405
Route(method, path) ==
    CASE path = <<"", "">> ->
            IF method = "GET" THEN "dashboard" ELSE "method_not_allowed"
      [] path = <<"", "health">> ->
            IF method = "GET" THEN "health" ELSE "method_not_allowed"
      [] path = <<"", "api", "pages">> ->
            IF method = "GET" THEN "get_pages"
            ELSE IF method = "POST" THEN "create_page" ELSE "method_not_allowed"
      [] IsPagePath(path, "hits") ->
            IF method = "GET" THEN "get_hits" ELSE "method_not_allowed"
      [] IsPagePath(path, "hit") ->
            IF method = "POST" THEN "increment_hit" ELSE "method_not_allowed"
      [] path = <<"", "metrics">> ->
            IF method = "GET" THEN "metrics" ELSE "method_not_allowed"
      [] OTHER -> "not_found"

\* the <int:page_id> view argument
ViewPageId(path) ==
    IF IsPagePath(path, "hits") \/ IsPagePath(path, "hit") THEN IntOfSeg(path[4]) ELSE 0

-----------------------------------------------------------------------------
(* Python on the parsed body *)

\* request.get_json(): the parsed body, or None without one; werkzeug 2.1 and later
\* abort with 415 when the request carries no JSON
GetJsonOutcomes(body) ==
    IF body.kind = "absent"
    THEN {[status |-> 0, data |-> JsonNull], [status |-> 415, data |-> JsonNull]}
    ELSE {[status |-> 0, data |-> body]}

\* bool(data)
Truthy(v) ==
    CASE v.kind = "object" -> Len(v.members) > 0
      [] v.kind = "array" -> Len(v.items) > 0
      [] v.kind = "number" -> v.num # 0
      [] OTHER -> FALSE

\* key in data: "TypeError" when data is not a container
Contains(v, key) ==
    CASE v.kind = "object" ->
            IF \E i \in 1..Len(v.members) : v.members[i].k = key THEN "yes" ELSE "no"
      [] v.kind = "array" ->
            IF \E i \in 1..Len(v.items) : v.items[i] = key THEN "yes" ELSE "no"
      [] OTHER -> "TypeError"

\* whether data[key] evaluates: only a dict is subscripted by a string
Subscriptable(v, key) == v.kind = "object" /\ Contains(v, key) = "yes"

\* data[key] of a dict holding key (json.loads keeps the last of repeated keys)
Subscript(v, key) ==
    LET i == CHOOSE j \in 1..Len(v.members) :
                 /\ v.members[j].k = key
                 /\ \A m \in (j + 1)..Len(v.members) : v.members[m].k # key
    IN v.members[i].v

-----------------------------------------------------------------------------
(* Responses *)

NoPage == [id |-> 0, name |-> "", hits |-> 0, created_at |-> 0]

Response(status, kind, page, hits, list, text) ==
    [status |-> status, kind |-> kind, page |-> page, hits |-> hits, list |-> list,
     text |-> text]

NoResponse == Response(0, "none", NoPage, 0, <<>>, "")
ErrorResponse(status, text) == Response(status, "error", NoPage, 0, <<>>, text)
PageResponse(status, page) == Response(status, "page", page, 0, <<>>, "")

NoRequest ==
    [method |-> "", path |-> <<>>, headers |-> NoHeaders, start_time |-> 0,
     request_id |-> "", handler |-> "", page_id |-> 0]

NoLocals == [data |-> JsonNull, page_id |-> 0, obj |-> 0, tmp |-> 0]

NoList == [valid |-> FALSE, list |-> <<>>]

-----------------------------------------------------------------------------
(* The state after import of app/main.py *)

Init ==
    /\ pages_data = [i \in 1..NumSeed |-> [key |-> i, ref |-> i]]
    /\ heap = [i \in 1..NumSeed |-> SeedPage(i)]
    /\ request_count = << >>
    /\ request_duration = << >>
    /\ hit_counter = << >>
    /\ clock = 0
    /\ pc = [t \in Threads |-> "idle"]
    /\ req = [t \in Threads |-> NoRequest]
    /\ loc = [t \in Threads |-> NoLocals]
    /\ resp = [t \in Threads |-> NoResponse]
    /\ nreq = 0
    /\ log = << >>
    /\ createdIds = << >>
    /\ hitsDone = << >>
    /\ lastList = NoList

store == <<pages_data, heap>>
metrics_state == <<request_count, request_duration, hit_counter>>
history == <<createdIds, hitsDone, lastList>>

\* a handler returns: the response is kept for after_request
Return(t, r) ==
    /\ resp' = [resp EXCEPT ![t] = r]
    /\ pc' = [pc EXCEPT ![t] = "after"]

-----------------------------------------------------------------------------
(* before_request *)

\* request.headers.get('X-Request-ID', default)
HeaderGet(headers, key, default) ==
    IF key \in DOMAIN headers THEN headers[key] ELSE default

RequestId(headers, now) == HeaderGet(headers, "X-Request-ID", "req-" \o ToString(now))

\* logger.info("Incoming request", extra={method, path, request_id})
RequestStart(method, path, request_id) ==
    [event |-> "request_start", method |-> method, path |-> path,
     request_id |-> request_id]

\* a completion record that always reports success
RequestEndReportingOk(status, duration, request_id) ==
    [event |-> "request_end", status |-> 200, duration_ms |-> duration * 1000,
     request_id |-> request_id]

\* logger.info("Request completed", extra={status, duration_ms, request_id})
RequestEnd(status, duration, request_id) ==
    [event |-> "request_end", status |-> status, duration_ms |-> duration * 1000,
     request_id |-> request_id]

\* the server hands an arriving request to a thread of its own (which one makes no
\* difference: the first free one). Lines 47-48 read the clock, which has ticked
\* since the last arrival.
Begin(t, max) ==
    /\ pc[t] = "idle"
    /\ \A u \in Threads : u < t => pc[u] # "idle"
    /\ nreq < max
    /\ \E a \in Arrivals :
          LET r == a[1]
              h == a[2]
              now == clock + 1 IN
          /\ clock' = now
          /\ req' = [req EXCEPT ![t] =
                        [method |-> r[1], path |-> r[2], headers |-> h,
                         start_time |-> now, request_id |-> RequestId(h, now),
                         handler |-> Route(r[1], r[2]), page_id |-> ViewPageId(r[2])]]
          /\ log' = Append(log, RequestStart(r[1], r[2], RequestId(h, now)))
    /\ pc' = [pc EXCEPT ![t] = "dispatch"]
    /\ nreq' = nreq + 1
    /\ UNCHANGED <<store, metrics_state, loc, resp, history>>

-----------------------------------------------------------------------------
(* The view functions. Each action is one uninterrupted stretch of a handler:   *)
(* a thread switch can fall between any two accesses to the shared pages_data.  *)

Dispatching(t, handler) == pc[t] = "dispatch" /\ req[t].handler = handler

\* dashboard(): the static dashboard markup
Dashboard(t) ==
    /\ Dispatching(t, "dashboard")
    /\ Return(t, Response(200, "html", NoPage, 0, <<>>, "dashboard"))
    /\ UNCHANGED <<store, metrics_state, clock, log, req, loc, nreq, history>>

\* health()
Health(t) ==
    /\ Dispatching(t, "health")
    /\ Return(t, Response(200, "status", NoPage, 0, <<>>, "healthy"))
    /\ UNCHANGED <<store, metrics_state, clock, log, req, loc, nreq, history>>

\* get_pages(): jsonify(list(pages_data.values()))
\* the pages listed newest first
ListPagesNewestFirst(d, h) == [i \in 1..Len(d) |-> h[d[Len(d) + 1 - i].ref]]

ListPages(d, h) == DictValues(d, h)

GetPages(t) ==
    /\ Dispatching(t, "get_pages")
    /\ Return(t, Response(200, "list", NoPage, 0, ListPages(pages_data, heap), ""))
    /\ lastList' = [valid |-> TRUE, list |-> ListPages(pages_data, heap)]
    /\ UNCHANGED <<store, metrics_state, clock, log, req, loc, nreq, createdIds, hitsDone>>

\* the id taken from the size without the + 1
NextPageIdFromSize(d) == Len(d)

\* an id that leaves a gap after the store's last key
NextPageIdSkipping(d) == Len(d) + 2

\* page_id = len(pages_data) + 1
NextPageId(d) == Len(d) + 1

\* the dict create_page stores
NewPage(page_id, name, now) ==
    [id |-> page_id, name |-> name, hits |-> 0, created_at |-> now]

\* create_page(), lines 94-98: parse and validate the body, then read the store's size
CreateValidated(data) ==
    IF ~Truthy(data) THEN 400
    ELSE IF Contains(data, "name") = "TypeError" THEN 500
    ELSE IF Contains(data, "name") = "no" THEN 400
    ELSE 0

CreatePage(t) ==
    /\ Dispatching(t, "create_page")
    /\ \E body \in BodyInputs : \E got \in GetJsonOutcomes(body) :
          LET status == IF got.status # 0 THEN got.status ELSE CreateValidated(got.data) IN
          /\ loc' = [loc EXCEPT ![t].data = got.data,
                                ![t].page_id =
                                    IF status = 0 THEN NextPageId(pages_data) ELSE 0]
          /\ IF status = 0
             THEN pc' = [pc EXCEPT ![t] = "create_write"] /\ UNCHANGED resp
             ELSE Return(t, ErrorResponse(status,
                      CASE status = 400 /\ got.status = 0 -> "name required"
                        [] status = 500 -> "internal server error"
                        [] OTHER -> "http error"))
    /\ UNCHANGED <<store, metrics_state, clock, log, req, nreq, history>>

\* create_page(), lines 99-104: build the page dict and store it under page_id
CreateWrite(t) ==
    /\ pc[t] = "create_write"
    /\ IF ~Subscriptable(loc[t].data, "name")
       THEN /\ Return(t, ErrorResponse(500, "internal server error"))
            /\ UNCHANGED <<store, lastList>>
       ELSE /\ heap' = Append(heap, NewPage(loc[t].page_id,
                                            Subscript(loc[t].data, "name"), clock))
            /\ pages_data' = DictSet(pages_data, loc[t].page_id, Len(heap) + 1)
            /\ lastList' = NoList
            /\ pc' = [pc EXCEPT ![t] = "create_resp"]
            /\ UNCHANGED resp
    /\ UNCHANGED <<metrics_state, clock, log, req, loc, nreq, createdIds, hitsDone>>

\* create_page(), line 105: jsonify(pages_data[page_id]), 201
CreateResp(t) ==
    /\ pc[t] = "create_resp"
    /\ LET page == PageAt(pages_data, heap, loc[t].page_id) IN
          /\ Return(t, PageResponse(201, page))
          /\ createdIds' = Append(createdIds, page.id)
    /\ UNCHANGED <<store, metrics_state, clock, log, req, loc, nreq, hitsDone, lastList>>

\* page_id not in pages_data
PageMissing(d, page_id) == page_id \notin Keys(d)

\* a get_hits that records the read as a hit
GetHitsCounting(t) ==
    /\ Dispatching(t, "get_hits")
    /\ IF PageMissing(pages_data, req[t].page_id)
       THEN /\ Return(t, ErrorResponse(404, "page not found"))
            /\ UNCHANGED heap
       ELSE /\ Return(t, Response(200, "hits", NoPage,
                                  PageAt(pages_data, heap, req[t].page_id).hits, <<>>, ""))
            /\ heap' = [heap EXCEPT ![DictGet(pages_data, req[t].page_id)].hits = @ + 1]
    /\ UNCHANGED <<pages_data, metrics_state, clock, log, req, loc, nreq, history>>

\* get_hits()
GetHits(t) ==
    /\ Dispatching(t, "get_hits")
    /\ IF PageMissing(pages_data, req[t].page_id)
       THEN Return(t, ErrorResponse(404, "page not found"))
       ELSE Return(t, Response(200, "hits", NoPage,
                               PageAt(pages_data, heap, req[t].page_id).hits, <<>>, ""))
    /\ UNCHANGED <<store, metrics_state, clock, log, req, loc, nreq, history>>

\* an increment_hit that counts the hit in page_hits_total before the membership test
HitLoadCountingFirst(t) ==
    /\ Dispatching(t, "increment_hit")
    /\ hit_counter' = CounterInc(hit_counter, ToString(req[t].page_id))
    /\ IF PageMissing(pages_data, req[t].page_id)
       THEN /\ Return(t, ErrorResponse(404, "page not found"))
            /\ UNCHANGED loc
       ELSE /\ loc' = [loc EXCEPT ![t].page_id = req[t].page_id,
                                  ![t].obj = DictGet(pages_data, req[t].page_id),
                                  ![t].tmp = PageAt(pages_data, heap, req[t].page_id).hits]
            /\ pc' = [pc EXCEPT ![t] = "hit_store"]
            /\ UNCHANGED resp
    /\ UNCHANGED <<store, request_count, request_duration, clock, log, req, nreq, history>>

\* increment_hit(), lines 115-118: the membership test, then the left half of
\* pages_data[page_id]['hits'] += 1: the page dict and its hits are loaded. No entry
\* is ever removed, so a test that passed still passes at the load: one step. The
\* store of the sum goes to the dict object loaded here, whatever pages_data[page_id]
\* has become by then.
HitLoad(t) ==
    /\ Dispatching(t, "increment_hit")
    /\ IF PageMissing(pages_data, req[t].page_id)
       THEN /\ Return(t, ErrorResponse(404, "page not found"))
            /\ UNCHANGED loc
       ELSE /\ loc' = [loc EXCEPT ![t].page_id = req[t].page_id,
                                  ![t].obj = DictGet(pages_data, req[t].page_id),
                                  ![t].tmp = PageAt(pages_data, heap, req[t].page_id).hits]
            /\ pc' = [pc EXCEPT ![t] = "hit_store"]
            /\ UNCHANGED resp
    /\ UNCHANGED <<store, metrics_state, clock, log, req, nreq, history>>

\* an increment that counts a hit twice
IncrementedTwice(hits) == hits + 2

\* the value += 1 stores
Incremented(hits) == hits + 1

\* a store of the sum that also restamps the page
HitStoreRestamping(t) ==
    /\ pc[t] = "hit_store"
    /\ heap' = [heap EXCEPT ![loc[t].obj].hits = Incremented(loc[t].tmp),
                            ![loc[t].obj].created_at = clock + 1]
    /\ lastList' = NoList
    /\ pc' = [pc EXCEPT ![t] = "hit_metric"]
    /\ UNCHANGED <<pages_data, metrics_state, clock, log, req, loc, resp, nreq, createdIds,
                   hitsDone>>

\* increment_hit(), line 118, right half: the sum is stored into the loaded page dict
HitStore(t) ==
    /\ pc[t] = "hit_store"
    /\ heap' = [heap EXCEPT ![loc[t].obj].hits = Incremented(loc[t].tmp)]
    /\ lastList' = NoList
    /\ pc' = [pc EXCEPT ![t] = "hit_metric"]
    /\ UNCHANGED <<pages_data, metrics_state, clock, log, req, loc, resp, nreq, createdIds,
                   hitsDone>>

\* increment_hit(), line 119: hit_counter.labels(page_name=...).inc()
HitMetric(t) ==
    /\ pc[t] = "hit_metric"
    /\ hit_counter' = CounterInc(hit_counter, PageAt(pages_data, heap, loc[t].page_id).name)
    /\ pc' = [pc EXCEPT ![t] = "hit_resp"]
    /\ UNCHANGED <<store, request_count, request_duration, clock, log, req, loc, resp, nreq,
                   history>>

\* increment_hit(), line 125: jsonify(pages_data[page_id]), 200
HitResp(t) ==
    /\ pc[t] = "hit_resp"
    /\ Return(t, PageResponse(200, PageAt(pages_data, heap, loc[t].page_id)))
    /\ hitsDone' = CounterInc(hitsDone, loc[t].page_id)
    /\ UNCHANGED <<store, metrics_state, clock, log, req, loc, nreq, createdIds, lastList>>

\* metrics(): generate_latest(REGISTRY)
\* a snapshot that leaves out the families that have no series yet
GenerateLatestOfSeries(rc, rd, hc) ==
    LET all == << [family |-> "api_requests_total", samples |-> rc],
                  [family |-> "api_request_duration_seconds", samples |-> rd],
                  [family |-> "page_hits_total", samples |-> hc] >>
    IN  SelectSeq(all, LAMBDA f : DOMAIN f.samples # {})

\* generate_latest(REGISTRY): every registered family, in registration order, with
\* the series it has; a family without series still has its HELP and TYPE lines
GenerateLatest(rc, rd, hc) ==
    << [family |-> "api_requests_total", samples |-> rc],
       [family |-> "api_request_duration_seconds", samples |-> rd],
       [family |-> "page_hits_total", samples |-> hc] >>

Metrics(t) ==
    /\ Dispatching(t, "metrics")
    /\ Return(t, Response(200, "metrics", NoPage, 0,
                          GenerateLatest(request_count, request_duration, hit_counter),
                          "text/plain"))
    /\ UNCHANGED <<store, metrics_state, clock, log, req, loc, nreq, history>>

\* the 404 error handler, for a path no route matches
NotFound(t) ==
    /\ Dispatching(t, "not_found")
    /\ Return(t, ErrorResponse(404, "not found"))
    /\ UNCHANGED <<store, metrics_state, clock, log, req, loc, nreq, history>>

\* werkzeug's answer for a known path under a method it has no route for
MethodNotAllowed(t) ==
    /\ Dispatching(t, "method_not_allowed")
    /\ Return(t, ErrorResponse(405, "method not allowed"))
    /\ UNCHANGED <<store, metrics_state, clock, log, req, loc, nreq, history>>

-----------------------------------------------------------------------------
(* after_request *)

\* a label that keeps the page id of the path
EndpointLabelWithId(path) ==
    IF Len(path) >= 4 THEN path[2] \o "/" \o path[4]
    ELSE IF path[2] = "" THEN "root" ELSE path[2]

\* request.path.split('/')[1] or 'root' (req.path holds the split path)
EndpointLabel(path) == IF path[2] = "" THEN "root" ELSE path[2]

\* an after_request that leaves error responses out of the metrics
EndCountingSuccesses(t) ==
    /\ pc[t] = "after"
    /\ IF resp[t].status >= 400
       THEN UNCHANGED <<request_count, request_duration>>
       ELSE /\ request_count' = CounterInc(request_count,
                                           <<req[t].method, EndpointLabel(req[t].path)>>)
            /\ request_duration' = HistogramObserve(request_duration,
                                                    EndpointLabel(req[t].path),
                                                    clock - req[t].start_time)
    /\ pc' = [pc EXCEPT ![t] = "idle"]
    /\ req' = [req EXCEPT ![t] = NoRequest]
    /\ loc' = [loc EXCEPT ![t] = NoLocals]
    /\ resp' = [resp EXCEPT ![t] = NoResponse]
    /\ log' = Append(log, RequestEnd(resp[t].status, clock - req[t].start_time,
                                     req[t].request_id))
    /\ UNCHANGED <<store, hit_counter, clock, nreq, history>>

\* inc() and observe() each take the metric's own lock and touch no other state
End(t) ==
    /\ pc[t] = "after"
    /\ request_count' = CounterInc(request_count,
                                   <<req[t].method, EndpointLabel(req[t].path)>>)
    /\ request_duration' = HistogramObserve(request_duration, EndpointLabel(req[t].path),
                                            clock - req[t].start_time)
    /\ pc' = [pc EXCEPT ![t] = "idle"]
    /\ req' = [req EXCEPT ![t] = NoRequest]
    /\ loc' = [loc EXCEPT ![t] = NoLocals]
    /\ resp' = [resp EXCEPT ![t] = NoResponse]
    /\ log' = Append(log, RequestEnd(resp[t].status, clock - req[t].start_time,
                                     req[t].request_id))
    /\ UNCHANGED <<store, hit_counter, clock, nreq, history>>

-----------------------------------------------------------------------------
(* The server: every thread takes its requests through the same steps *)

\* the steps of a request already received
Proceed(t) ==
    \/ Dashboard(t)
    \/ Health(t)
    \/ GetPages(t)
    \/ CreatePage(t)
    \/ CreateWrite(t)
    \/ CreateResp(t)
    \/ GetHits(t)
    \/ HitLoad(t)
    \/ HitStore(t)
    \/ HitMetric(t)
    \/ HitResp(t)
    \/ Metrics(t)
    \/ NotFound(t)
    \/ MethodNotAllowed(t)
    \/ End(t)

Step(t, max) == Begin(t, max) \/ Proceed(t)

Next == \E t \in Threads : Step(t, MaxRequests)

Spec == Init /\ [][Next]_vars

\* one request at a time: a thread steps only while every other thread is idle
SeqNext ==
    \E t \in Threads : (\A u \in Threads \ {t} : pc[u] = "idle") /\ Step(t, MaxSeqRequests)

SeqSpec == Init /\ [][SeqNext]_vars

\* the threaded server runs every handler thread again and again, and no step of a
\* handler waits for another request
FairSpec == Spec /\ \A t \in Threads : WF_vars(Proceed(t))

-----------------------------------------------------------------------------
(* Vocabulary of the claims *)

\* thread t takes this step: every step of a request moves its thread
Acts(t) == pc'[t] # pc[t]

\* the request thread t is in during this step (the one arriving, on its first step)
ReqOf(t) == IF pc[t] = "idle" THEN req'[t] ELSE req[t]

Responded(t, handler) == pc[t] = "after" /\ req[t].handler = handler

\* a page's hits when it entered the store
InitialHits(id) == IF id \in 1..NumSeed THEN SeedHits[id] ELSE 0

\* an incrementHit on id has stored its sum and not answered yet
HitInFlight(id) ==
    \E t \in Threads : pc[t] \in {"hit_store", "hit_metric", "hit_resp"} /\ loc[t].page_id = id

\* the body carries a non-empty name
HasNonEmptyName(data) ==
    /\ data.kind = "object"
    /\ Contains(data, "name") = "yes"
    /\ Subscript(data, "name") # ""

CreatedIdSet == {createdIds[i] : i \in 1..Len(createdIds)}

\* a create has read the store's size and not answered yet
CreateInFlight == \E t \in Threads : pc[t] \in {"create_write", "create_resp"}

-----------------------------------------------------------------------------
(* Page store: creation *)

\* C1: no two create requests are ever answered with the same id, in any interleaving
\* of their steps; and once the creates under way have all answered, the ids returned
\* form a gap-free run of consecutive integers following the ids already in the store.
C1_CreatedIdsDistinctGapFree ==
    /\ \A i, j \in 1..Len(createdIds) : i # j => createdIds[i] # createdIds[j]
    /\ ~CreateInFlight => CreatedIdSet = (NumSeed + 1)..(NumSeed + Len(createdIds))

\* C3: a create request whose body carries no non-empty name is answered 400, never
\* 201 or 500, and never gets as far as storing a page.
C3_InvalidCreateIs400 ==
    \A t \in Threads :
        (/\ req[t].handler = "create_page"
         /\ pc[t] \in {"create_write", "create_resp", "after"}
         /\ ~HasNonEmptyName(loc[t].data))
        => (pc[t] = "after" /\ resp[t].status = 400)

\* C5: a create request with a valid name n is answered 201 with a page named n whose
\* hits is 0, and that page is the one stored under the returned id, also when other
\* requests run concurrently.
C5_CreateReturnsItsPage ==
    [][\A t \in Threads :
          (pc[t] = "create_resp" /\ Acts(t) /\ HasNonEmptyName(loc[t].data)) =>
              /\ resp'[t].status = 201
              /\ resp'[t].page.name = Subscript(loc[t].data, "name")
              /\ resp'[t].page.hits = 0
              /\ resp'[t].page.id \in Keys(pages_data')
              /\ PageAt(pages_data', heap', resp'[t].page.id) = resp'[t].page]_vars

\* C6, as claimed: a freshly started service has an empty store and the k-th
\* successful sequential create returns id k.
C6_IdsStartAtOne ==
    /\ nreq = 0 => Len(pages_data) = 0
    /\ \A k \in 1..Len(createdIds) : createdIds[k] = k

\* C6, amended: a freshly started service holds the seeded pages under ids 1..15, and
\* the k-th successful sequential create returns id 15 + k.
C6_IdsFollowSeed ==
    /\ nreq = 0 => Keys(pages_data) = 1..NumSeed
    /\ \A k \in 1..Len(createdIds) : createdIds[k] = NumSeed + k

C6_Witness == Len(createdIds) >= 2 /\ \A t \in Threads : pc[t] = "idle"

-----------------------------------------------------------------------------
(* Page store: hits *)

\* C2: once the incrementHit requests on an id have all completed, the page's hits is
\* its hits before them plus their number: no update is lost.
C2_NoLostUpdate ==
    \A id \in Keys(pages_data) :
        ~HitInFlight(id) =>
            PageAt(pages_data, heap, id).hits = InitialHits(id) + SeriesValue(hitsDone, id)

\* C7: with requests taken one at a time, the j-th incrementHit on a page created in
\* the run is answered 200 with hits j, and a getHits after it is answered 200 with
\* the same value.
C7_SequentialHitsCount ==
    \A t \in Threads :
        /\ (Responded(t, "increment_hit") /\ req[t].page_id \in CreatedIdSet) =>
              /\ resp[t].status = 200
              /\ resp[t].page.hits = SeriesValue(hitsDone, req[t].page_id)
        /\ (Responded(t, "get_hits") /\ req[t].page_id \in CreatedIdSet) =>
              /\ resp[t].status = 200
              /\ resp[t].hits = SeriesValue(hitsDone, req[t].page_id)

C7_Witness ==
    \E t \in Threads :
        /\ Responded(t, "increment_hit")
        /\ req[t].page_id \in CreatedIdSet
        /\ resp[t].status = 200
        /\ resp[t].page.hits = 2
        /\ SeriesValue(hitsDone, req[t].page_id) = 2

\* C8: in every step, every stored page keeps its id and its name, and its hits is
\* never negative and never decreases.
C8_PagesKeepIdentity ==
    [][\A k \in Keys(pages_data) :
          /\ k \in Keys(pages_data')
          /\ PageAt(pages_data', heap', k).id = PageAt(pages_data, heap, k).id
          /\ PageAt(pages_data', heap', k).name = PageAt(pages_data, heap, k).name
          /\ PageAt(pages_data, heap, k).hits >= 0
          /\ PageAt(pages_data', heap', k).hits >= PageAt(pages_data, heap, k).hits]_vars

-----------------------------------------------------------------------------
(* Unknown ids *)

UnknownIdHandlers == {"get_hits", "increment_hit"}

\* thread t holds the 404 of a getHits or incrementHit
UnknownIdAnswered(t) ==
    /\ pc[t] = "after"
    /\ req[t].handler \in UnknownIdHandlers
    /\ resp[t].status = 404

\* the steps of a request for an id the store does not hold: the handler answers 404
\* and touches neither the store nor a metric; before_request touches neither
UnknownIdHandlerStep(t) ==
    /\ (/\ pc[t] = "dispatch"
        /\ req[t].handler \in UnknownIdHandlers
        /\ req[t].page_id \notin Keys(pages_data))
       => (/\ pc'[t] = "after"
           /\ resp'[t].status = 404
           /\ UNCHANGED <<store, metrics_state>>)
    /\ (pc[t] = "idle" /\ req'[t].handler \in UnknownIdHandlers)
       => UNCHANGED <<store, metrics_state>>

\* C4, as claimed: a getHits or incrementHit for an id not in the store is answered 404
\* and no step of the request, its end included, changes the store or a metric series.
C4_UnknownIdChangesNothing ==
    [][\A t \in Threads :
          Acts(t) =>
              /\ UnknownIdHandlerStep(t)
              /\ UnknownIdAnswered(t) => UNCHANGED <<store, metrics_state>>]_vars

\* C4, amended: a getHits or incrementHit for an id not in the store is answered 404;
\* no step of the request changes the store or page_hits_total; its end adds one to
\* api_requests_total{method, api}, one observation to the duration histogram of api,
\* and changes no other series.
C4_UnknownIdCountedOnce ==
    [][\A t \in Threads :
          Acts(t) =>
              /\ UnknownIdHandlerStep(t)
              /\ UnknownIdAnswered(t)
                 => /\ UNCHANGED <<store, hit_counter>>
                    /\ DOMAIN request_count' = DOMAIN request_count \cup {<<req[t].method, "api">>}
                    /\ \A l \in DOMAIN request_count' :
                          request_count'[l] = SeriesValue(request_count, l)
                                              + (IF l = <<req[t].method, "api">> THEN 1 ELSE 0)
                    /\ DOMAIN request_duration' = DOMAIN request_duration \cup {"api"}
                    /\ \A l \in DOMAIN request_duration' :
                          request_duration'[l].count =
                              (IF l \in DOMAIN request_duration
                               THEN request_duration[l].count ELSE 0)
                              + (IF l = "api" THEN 1 ELSE 0)]_vars

C4_Witness ==
    /\ \E t \in Threads : Responded(t, "increment_hit") /\ resp[t].status = 404
    /\ \E u \in Threads : Responded(u, "get_hits") /\ resp[u].status = 404

-----------------------------------------------------------------------------
(* Reads *)

\* C9: no step of a GET request changes the page store, and a GET /api/pages returns
\* the array the last GET /api/pages returned when no create or incrementHit has
\* written to the store in between.
C9_ReadsLeaveStore ==
    [][\A t \in Threads :
          Acts(t) =>
              /\ ReqOf(t).method = "GET" => UNCHANGED store
              /\ (pc[t] = "dispatch" /\ req[t].handler = "get_pages" /\ lastList.valid)
                 => resp'[t].list = lastList.list]_vars

C9_Witness ==
    \E t, u \in Threads :
        /\ t # u
        /\ Responded(t, "get_pages") /\ Responded(u, "get_pages")
        /\ resp[t].list = resp[u].list
        /\ Len(resp[t].list) = NumSeed

-----------------------------------------------------------------------------
(* Request correlation *)

\* C10: the request id of a request is the X-Request-ID header's value when the header
\* is present and non-empty, and a synthesized non-empty id in every other case.
C10_RequestIdNeverEmpty ==
    \A t \in Threads :
        pc[t] # "idle" =>
            LET h == req[t].headers IN
            IF "X-Request-ID" \in DOMAIN h /\ h["X-Request-ID"] # ""
            THEN req[t].request_id = h["X-Request-ID"]
            ELSE /\ req[t].request_id # ""
                 /\ req[t].request_id = "req-" \o ToString(req[t].start_time)

-----------------------------------------------------------------------------
(* Metrics labels *)

\* the paths that differ from path at most in the page id segment
SameButId(p, q) ==
    /\ Len(p) = Len(q)
    /\ \A i \in 1..Len(p) : p[i] # q[i] => (i = 4 /\ IsIntSeg(p[i]) /\ IsIntSeg(q[i]))

\* C11: the end of a request whose path has a first segment counts the request under
\* that segment (/api/pages/16/hit under api), so requests whose paths differ only in
\* the page id are counted under one label, and no label is or contains a page id:
\* the labels are the first segments of the paths requested, or root.
C11_EndpointIsFirstSegment ==
    [][\A t \in Threads :
          (Acts(t) /\ pc[t] = "after") =>
              /\ req[t].path[2] # "" =>
                    /\ SeriesValue(request_count', <<req[t].method, req[t].path[2]>>)
                         = SeriesValue(request_count, <<req[t].method, req[t].path[2]>>) + 1
                    /\ req[t].path[2] \in DOMAIN request_duration'
              /\ \A p \in PathInputs :
                    (SameButId(p, req[t].path) /\ p[2] # "") =>
                        /\ <<req[t].method, p[2]>> \in DOMAIN request_count'
                        /\ p[2] \in DOMAIN request_duration'
              /\ DOMAIN request_duration' \subseteq {p[2] : p \in PathInputs} \cup {"root"}
              /\ \A l \in DOMAIN request_count' : l[2] \in DOMAIN request_duration']_vars

C11_Witness ==
    /\ SeriesValue(request_count, <<"GET", "api">>) = 2
    /\ DOMAIN request_duration = {"api"}
    /\ hitsDone = << >>
    /\ lastList = NoList

-----------------------------------------------------------------------------
(* Metrics counts *)

\* the sum of a counter's series
RECURSIVE SumOver(_, _)
SumOver(c, labels) ==
    IF labels = {} THEN 0
    ELSE LET l == CHOOSE x \in labels : TRUE IN c[l] + SumOver(c, labels \ {l})

CounterTotal(c) == SumOver(c, DOMAIN c)

\* requests that have begun and ended
Completed == nreq - Cardinality({t \in Threads : pc[t] # "idle"})

StatusesSeen == {200, 201, 400, 404, 405, 415, 500}

\* C12: every completed request, whatever its status, has added one to the request
\* counter series of its {method, endpoint} and one observation to the duration
\* histogram of its endpoint: the request counter series sum to the number of
\* completed requests, and each endpoint's observation count is the sum over the
\* methods of its request counter series.
C12_EveryRequestCounted ==
    /\ CounterTotal(request_count) = Completed
    /\ {l[2] : l \in DOMAIN request_count} = DOMAIN request_duration
    /\ \A e \in DOMAIN request_duration :
          request_duration[e].count =
              SumOver(request_count, {l \in DOMAIN request_count : l[2] = e})
    /\ \A t \in Threads : pc[t] = "after" => resp[t].status \in StatusesSeen

C12_Witness ==
    /\ Completed = 2
    /\ SeriesValue(request_count, <<"POST", "api">>) = 1
    /\ SeriesValue(request_count, <<"GET", "api">>) = 1
    /\ request_duration["api"].count = 2
    /\ createdIds = << >> /\ hitsDone = << >> /\ lastList = NoList

-----------------------------------------------------------------------------
(* Hit metric *)

\* thread t is in an increment_hit request on an id the store does not hold
FailingHit(t) ==
    /\ pc[t] # "idle"
    /\ req[t].handler = "increment_hit"
    /\ pc[t] \in {"dispatch", "after"}
    /\ pc[t] = "after" => resp[t].status = 404

\* C13: an increment_hit request answered 404 leaves every page_hits_total series
\* as it is and creates none; a series changes only in the step of an increment_hit
\* request that has found and incremented its page, which adds one to the series
\* of the name stored under its id and is then answered 200, so a series exists
\* only after such a step.
C13_FailedHitLeavesHitCounter ==
    [][\A t \in Threads : Acts(t) =>
          /\ (FailingHit(t) /\ (pc'[t] = "after" => resp'[t].status = 404))
                => hit_counter' = hit_counter
          /\ hit_counter' # hit_counter =>
                /\ pc[t] = "hit_metric"
                /\ req[t].handler = "increment_hit"
                /\ req[t].page_id \in Keys(pages_data)
                /\ hit_counter' = CounterInc(hit_counter,
                                             PageAt(pages_data, heap, req[t].page_id).name)
          /\ pc[t] = "hit_resp" => resp'[t].status = 200]_vars

\* a hit on an unknown id has been answered 404 after a hit that succeeded
C13_Witness ==
    /\ SeriesValue(request_count, <<"POST", "api">>) = 1
    /\ DOMAIN hitsDone = {1}
    /\ DOMAIN hit_counter = {SeedNames[1]}
    /\ hit_counter[SeedNames[1]] = 1
    /\ \E t \in Threads : FailingHit(t) /\ pc[t] = "after"

-----------------------------------------------------------------------------
(* Listing *)

\* C14: the array GET /api/pages answers with holds every page of the store, each
\* exactly once, in the store's insertion order, and that order is strictly
\* ascending in id.
C14_ListIsStoreInIdOrder ==
    [][\A t \in Threads :
          (Acts(t) /\ pc[t] = "dispatch" /\ req[t].handler = "get_pages") =>
              LET list == resp'[t].list IN
              /\ resp'[t].status = 200
              /\ Len(list) = Len(pages_data)
              /\ \A i \in 1..Len(list) : list[i] = PageAt(pages_data, heap, pages_data[i].key)
              /\ \A k \in Keys(pages_data) :
                    Cardinality({i \in 1..Len(list) : list[i].id = k}) = 1
              /\ \A i, j \in 1..Len(list) : i < j => list[i].id < list[j].id]_vars

\* a listing answered after a create and a hit on the first page
C14_Witness ==
    /\ lastList.valid
    /\ Len(lastList.list) = NumSeed + 1
    /\ lastList.list[1].hits = SeedHits[1] + 1
    /\ lastList.list[NumSeed + 1].id = NumSeed + 1

-----------------------------------------------------------------------------
(* Metrics snapshot *)

FamiliesIn(snapshot) == {snapshot[i].family : i \in 1..Len(snapshot)}

\* C15: GET /metrics answers 200 with a snapshot that holds the api_requests_total
\* family, whatever came before it, nothing included.
C15_MetricsHasRequestFamily ==
    \A t \in Threads :
        Responded(t, "metrics") =>
            /\ resp[t].status = 200
            /\ "api_requests_total" \in FamiliesIn(resp[t].list)
            /\ FamiliesIn(resp[t].list) = MetricFamilies

\* GET /metrics answered as the first request the service receives
C15_Witness ==
    /\ nreq = 1
    /\ \E t \in Threads : Responded(t, "metrics") /\ resp[t].status = 200
    /\ request_count = << >>

-----------------------------------------------------------------------------
(* Request tracing *)

\* the records of one kind and one request_id among the first k records of the log
Records(event, id, k) ==
    {i \in 1..k : log[i].event = event /\ log[i].request_id = id}

LoggedIds == {log[i].request_id : i \in 1..Len(log)}

\* the requests in flight that carry request_id id
InFlight(id) == {t \in Threads : pc[t] # "idle" /\ req[t].request_id = id}

\* every request_end record comes after a request_start record of its own, and a
\* request_id has one request_start more than request_end records for each request
\* in flight that carries it, none more: a finished request has exactly one
TraceBalanced ==
    \A id \in LoggedIds :
        /\ \A k \in 0..Len(log) :
              Cardinality(Records("request_end", id, k))
                  <= Cardinality(Records("request_start", id, k))
        /\ Cardinality(Records("request_start", id, Len(log)))
              = Cardinality(Records("request_end", id, Len(log)))
                    + Cardinality(InFlight(id))

\* a step of thread t writes to the log only when it begins or ends a request; the
\* end record carries the request_id and start time taken at the beginning and the
\* status of the response; no step touches the request of another thread
TraceStep(t) ==
    /\ \A u \in Threads \ {t} : req'[u] = req[u] /\ resp'[u] = resp[u]
    /\ (pc[t] # "idle" /\ pc'[t] # "idle") =>
          /\ req'[t] = req[t]
          /\ log' = log
    /\ pc[t] = "idle" =>
          /\ Len(log') = Len(log) + 1
          /\ log'[Len(log')].event = "request_start"
          /\ log'[Len(log')].request_id = req'[t].request_id
          /\ req'[t].start_time = clock'
    /\ pc'[t] = "idle" =>
          /\ pc[t] = "after"
          /\ resp[t].status \in StatusesSeen
          /\ log' = Append(log, [event |-> "request_end",
                                 status |-> resp[t].status,
                                 duration_ms |-> (clock - req[t].start_time) * 1000,
                                 request_id |-> req[t].request_id])

\* C16: a request that has begun ends, whatever its route and whether or not its
\* handler faults: its request_start record is followed by exactly one request_end
\* record of the same request_id and of the status sent, and no request changes
\* the request_id or start time of another.
C16_EveryRequestEnds ==
    /\ []TraceBalanced
    /\ [][\A t \in Threads : Acts(t) => TraceStep(t)]_vars
    /\ \A t \in Threads : (pc[t] # "idle") ~> (pc[t] = "idle")

\* two requests were in flight together; one was unmatched and one faulted
C16_Witness ==
    /\ Len(log) = 4
    /\ log[1].event = "request_start" /\ log[2].event = "request_start"
    /\ log[3].event = "request_end" /\ log[3].request_id = log[2].request_id
    /\ log[3].status = 404
    /\ log[4].event = "request_end" /\ log[4].request_id = log[1].request_id
    /\ log[4].status = 500

-----------------------------------------------------------------------------
(* Page store: size *)

\* a create has stored its page and not answered yet
CreateStored == {t \in Threads : pc[t] = "create_resp"}

\* C17: in every reachable state the store holds the seeded pages and one page for
\* every create answered 201 (or stored and about to be answered 201): no page of a
\* successful create is overwritten or dropped by another create.
C17_StoreCountsCreates ==
    Len(pages_data) = NumSeed + Len(createdIds) + Cardinality(CreateStored)

\* C18: in every reachable state the store's keys are the integers 1..n, n the
\* number of stored pages, and the page stored under key k has id k.
C18_KeysAreOneToN ==
    /\ Keys(pages_data) = 1..Len(pages_data)
    /\ \A k \in Keys(pages_data) : PageAt(pages_data, heap, k).id = k

\* two creates have stored their pages, one after the other's write
C18_Witness ==
    /\ Len(pages_data) = NumSeed + 2
    /\ PageAt(pages_data, heap, NumSeed + 2).id = NumSeed + 2
    /\ \E t \in Threads : pc[t] = "create_resp"

-----------------------------------------------------------------------------
(* Hit metric and stored hits *)

\* the hits the pages under the keys ks have gained since startup or creation
RECURSIVE HitsGained(_)
HitsGained(ks) ==
    IF ks = {} THEN 0
    ELSE LET k == CHOOSE x \in ks : TRUE IN
         (PageAt(pages_data, heap, k).hits - InitialHits(k)) + HitsGained(ks \ {k})

KeysNamed(n) == {k \in Keys(pages_data) : PageAt(pages_data, heap, k).name = n}

PageNames == {PageAt(pages_data, heap, k).name : k \in Keys(pages_data)}

HitInProgress == \E t \in Threads : pc[t] # "idle" /\ req[t].handler = "increment_hit"

\* C19: whenever no increment_hit request is in progress, the page_hits_total
\* series of every page name equals the hits gained by the pages of that name.
C19_HitMetricMatchesStore ==
    ~HitInProgress =>
        \A n \in PageNames \cup DOMAIN hit_counter :
            SeriesValue(hit_counter, n) = HitsGained(KeysNamed(n))

-----------------------------------------------------------------------------
(* Frame of a hit *)

\* thread t is running increment_hit on a page of the store
Hitting(t) ==
    /\ pc[t] \in {"dispatch", "hit_store", "hit_metric", "hit_resp"}
    /\ req[t].handler = "increment_hit"
    /\ req[t].page_id \in Keys(pages_data)

\* C20: every step of an increment_hit request on page id leaves the store's keys
\* and every other page as they are, and leaves the id, name and created_at of page
\* id as they are: the one field it changes is the hits of page id, which its store
\* step sets to the loaded hits plus one.
C20_HitChangesOnlyHits ==
    [][\A t \in Threads :
          (Acts(t) /\ Hitting(t)) =>
              LET id == req[t].page_id
                  old == PageAt(pages_data, heap, id)
                  new == PageAt(pages_data', heap', id) IN
              /\ pages_data' = pages_data
              /\ \A k \in Keys(pages_data) \ {id} :
                    PageAt(pages_data', heap', k) = PageAt(pages_data, heap, k)
              /\ new.id = old.id /\ new.name = old.name /\ new.created_at = old.created_at
              /\ new.hits # old.hits => (pc[t] = "hit_store" /\ new.hits = loc[t].tmp + 1)
              /\ (pc[t] = "hit_store" /\ loc[t].obj = DictGet(pages_data, id))
                    => new.hits = loc[t].tmp + 1]_vars

\* a hit on page 1 has stored its sum while a create has stored page 16
C20_Witness ==
    \E t, u \in Threads :
        /\ pc[t] = "hit_metric" /\ req[t].page_id = 1
        /\ PageAt(pages_data, heap, 1).hits = SeedHits[1] + 1
        /\ PageAt(pages_data, heap, 1).name = SeedNames[1]
        /\ pc[u] = "create_resp"
        /\ PageAt(pages_data, heap, NumSeed + 1).hits = 0
        /\ \A k \in 2..NumSeed : PageAt(pages_data, heap, k) = SeedPage(k)

====
